---- MODULE Spec2Model ----
(***************************************************************************)
(* A model of backend/main.py: the tool-augmented conversation driver      *)
(* get_ollama_response_with_web, the streaming generator                   *)
(* generate_ollama_stream, and the two route handlers that call them.      *)
(*                                                                         *)
(* A text is modelled as a prefix of a named source text: the record       *)
(* [src |-> s, len |-> n] is the first n characters of the text named s.   *)
(* The empty text stands for Python's None or "" (both are falsy and the   *)
(* code only tests truthiness).  The logger calls change no state of the   *)
(* driver and are left out.                                                *)
(***************************************************************************)
EXTENDS Naturals, Sequences, FiniteSets, TLC

(* ------------------------------ bounds -------------------------------- *)

\* the most ollama.chat calls the model runtime answers for one request
MaxRounds == 2

\* the most tool_calls one reply carries
MaxCalls == 2

\* the most fragments the model runtime emits on one stream
MaxFrags == 3

(* ------------------------------ texts --------------------------------- *)

Min(a, b) == IF a <= b THEN a ELSE b

Txt(s) == [src |-> s, len |-> Len(s)]

NoText == Txt("")

\* Python truthiness of an Optional[str]
Truthy(t) == t.len > 0

\* Python slice t[:k]
SliceTo(t, k) == [src |-> t.src, len |-> Min(t.len, k)]

\* 8000 * 4, the slice bound of line 76
ResultLimit == 32000

\* the f-string of line 78
NotFoundText(name) == Txt("Tool " \o name \o " not found")

(* --------------------------- requests, routes ------------------------- *)

Requests == {"r1", "r2"}

None == "None"

(* ------------------------------ turns --------------------------------- *)

\* the dict of lines 116-119 and 155-158
UserTurn(prompt) ==
    [role |-> "user", content |-> prompt, thinking |-> NoText,
     tool_calls |-> <<>>, tool_name |-> None]

\* response.message, an ollama Message with role "assistant"
Message(content, thinking, calls) ==
    [role |-> "assistant", content |-> content, thinking |-> thinking,
     tool_calls |-> calls, tool_name |-> None]

\* the dicts of lines 76 and 78
ToolTurn(content, name) ==
    [role |-> "tool", content |-> content, thinking |-> NoText,
     tool_calls |-> <<>>, tool_name |-> name]

\* a ToolCall: tool_call.function.name and tool_call.function.arguments
ToolCall(name, arguments) == [name |-> name, arguments |-> arguments]

NoCall == ToolCall(None, None)

NoMessage == Message(NoText, NoText, <<>>)

HomePrompt == Txt("home purchase prompt")

RetirementPrompt == Txt("retirement prompt")

(* ------------------------- the external world ------------------------- *)

\* names a model may put in a tool request; "calc" is not registered
ToolNames == {"web_search", "web_fetch", "calc"}

\* the arguments mapping of the i-th request of a reply
ArgsOf(i) == IF i = 1 THEN "args1" ELSE IF i = 2 THEN "args2" ELSE "args3"

RECURSIVE CallSeqs(_)
CallSeqs(n) ==
    IF n = 0 THEN {<<>>}
    ELSE {<<>>} \cup
         { Append(s, ToolCall(nm, ArgsOf(Len(s) + 1))) :
             s \in {t \in CallSeqs(n - 1) : Len(t) = n - 1}, nm \in ToolNames }
         \cup CallSeqs(n - 1)

\* (content, thinking) of the replies the model runtime gives
ReplyTexts ==
    { <<Txt("final answer"), NoText>>, <<NoText, Txt("deliberation")>> }

Replies ==
    { Message(ct[1], ct[2], calls) : ct \in ReplyTexts, calls \in CallSeqs(MaxCalls) }

\* what str(result) may be for each registered capability
ResultsOf ==
    [fn \in {"web_search", "web_fetch"} |->
        IF fn = "web_search" THEN { [src |-> "search hits", len |-> 200] }
        ELSE { [src |-> "fetched page", len |-> ResultLimit + 1] }]

ModelError == [type |-> "ResponseError", msg |-> Txt("model runtime error")]

ToolError == [type |-> "ConnectionError", msg |-> Txt("tool failed")]

NoExc == [type |-> None, msg |-> NoText]

\* str(e)
Str(e) == e.msg

\* chunk.message.content of the chunks a stream may carry
Fragments == { Txt("Afford"), Txt("ability: yes"), Txt(".") }

(* ------------------------------- state -------------------------------- *)

VARIABLES
    pc,                \* where each request's control flow stands
    route,             \* the route a request came in on
    messages,          \* the list `messages` of the handler and the driver
    response,          \* response.message of the last ollama.chat
    tool_call,         \* the loop variable of line 69
    function_to_call,  \* the local of line 70
    returned,          \* <<v>> once get_ollama_response_with_web returned v
    exc,               \* the exception that is propagating
    status,            \* HTTP status sent to the caller (0: none yet)
    body,              \* the response body sent so far
    sent,              \* history: the conversations passed to ollama.chat
    got,               \* history: the replies ollama.chat gave
    invoked,           \* history: the capability invocations made, each with
                       \* its round, whether it answered, and str(result)
    received,          \* history: fragments taken from the model's stream
    chunk              \* the loop variable of line 46

vars == <<pc, route, messages, response, tool_call, function_to_call, returned,
          exc, status, body, sent, got, invoked, received, chunk>>

driverVars ==
    <<messages, response, tool_call, function_to_call, returned, sent, got, invoked>>

httpVars == <<status, body>>

streamVars == <<received, chunk>>

Init ==
    /\ pc = [r \in Requests |-> "idle"]
    /\ route = [r \in Requests |-> None]
    /\ messages = [r \in Requests |-> <<>>]
    /\ response = [r \in Requests |-> NoMessage]
    /\ tool_call = [r \in Requests |-> NoCall]
    /\ function_to_call = [r \in Requests |-> None]
    /\ returned = [r \in Requests |-> <<>>]
    /\ exc = [r \in Requests |-> NoExc]
    /\ status = [r \in Requests |-> 0]
    /\ body = [r \in Requests |-> <<>>]
    /\ sent = [r \in Requests |-> <<>>]
    /\ got = [r \in Requests |-> <<>>]
    /\ invoked = [r \in Requests |-> <<>>]
    /\ received = [r \in Requests |-> <<>>]
    /\ chunk = [r \in Requests |-> NoText]

(* --------------------------- route handlers --------------------------- *)

\* variant: the conversation is one list that all requests share
HomeHandler_Shared(r) ==
    /\ pc[r] = "idle"
    /\ route' = [route EXCEPT ![r] = "/plan-home-purchase"]
    /\ messages' = [q \in Requests |-> <<UserTurn(HomePrompt)>>]
    /\ pc' = [pc EXCEPT ![r] = "chat"]
    /\ UNCHANGED <<response, tool_call, function_to_call, returned, exc,
                   sent, invoked, got, httpVars, streamVars>>

\* POST /plan-home-purchase, lines 86-122: build the prompt, make the
\* conversation and enter get_ollama_response_with_web
HomeHandler(r) ==
    /\ pc[r] = "idle"
    /\ route' = [route EXCEPT ![r] = "/plan-home-purchase"]
    /\ messages' = [messages EXCEPT ![r] = <<UserTurn(HomePrompt)>>]
    /\ pc' = [pc EXCEPT ![r] = "chat"]
    /\ UNCHANGED <<response, tool_call, function_to_call, returned, exc,
                   sent, invoked, got, httpVars, streamVars>>

\* line 122: the handler returns the driver's value; PlainTextResponse, 200
HomeReturn(r) ==
    /\ pc[r] = "returned"
    /\ status' = [status EXCEPT ![r] = 200]
    /\ body' = [body EXCEPT ![r] = <<returned[r][1]>>]
    /\ pc' = [pc EXCEPT ![r] = "done"]
    /\ UNCHANGED <<route, exc, driverVars, streamVars>>

\* lines 124-126: except Exception -> HTTPException(500, detail=str(e))
HomeExcept(r) ==
    /\ pc[r] = "raised"
    /\ status' = [status EXCEPT ![r] = 500]
    /\ body' = [body EXCEPT ![r] = <<Str(exc[r])>>]
    /\ pc' = [pc EXCEPT ![r] = "done"]
    /\ UNCHANGED <<route, exc, driverVars, streamVars>>

(* ------------------- get_ollama_response_with_web --------------------- *)

\* available_tools of line 53: tool name -> capability
available_tools == [n \in {"web_search", "web_fetch"} |-> n]

\* dict.get(key): the value, or None when the key is missing
Get(d, key) == IF key \in DOMAIN d THEN d[key] ELSE None

\* variant: the item is put in front of the list
ListAppend_Front(list, x) == <<x>> \o list

\* variant: the reply is stored without its thinking text
ListAppend_NoThinking(list, x) == Append(list, [x EXCEPT !.thinking = NoText])

\* messages.append(x)
ListAppend(list, x) == Append(list, x)

\* variant: the loop stops at the first tool call
ForLoop_First(calls, i, tc, fn) ==
    <<calls[1], Get(available_tools, calls[1].name)>>

\* the for loop of lines 69-70, run from its i-th iteration on: the values
\* tool_call and function_to_call hold when it ends
RECURSIVE ForLoop(_, _, _, _)
ForLoop(calls, i, tc, fn) ==
    IF i > Len(calls) THEN <<tc, fn>>
    ELSE ForLoop(calls, i + 1, calls[i], Get(available_tools, calls[i].name))

\* variant: a reply with a single tool call counts as having none
HasToolCalls_Many(m) == Len(m.tool_calls) > 1

\* line 67: truthiness of response.message.tool_calls (None or [] is falsy)
HasToolCalls(m) == Len(m.tool_calls) > 0

\* variant: the content of the first turn is returned
LastContent_First(list) == list[1].content

\* line 82: messages[-1].content
LastContent(list) == list[Len(list)].content

\* variant: the result is appended whole
ResultTurn_Whole(result, tc) == ToolTurn(result, tc.name)

\* line 76: the dict appended for a result
ResultTurn(result, tc) == ToolTurn(SliceTo(result, ResultLimit), tc.name)

\* line 78: the dict appended when the lookup gave None
NotFoundTurn(tc) == ToolTurn(NotFoundText(tc.name), tc.name)

\* lines 56-66: ollama.chat answers with m; the reply is appended
Chat(r, replies) ==
    /\ pc[r] = "chat"
    /\ Len(sent[r]) < MaxRounds
    /\ \E m \in replies :
        /\ sent' = [sent EXCEPT ![r] = Append(@, messages[r])]
        /\ got' = [got EXCEPT ![r] = Append(@, m)]
        /\ response' = [response EXCEPT ![r] = m]
        /\ messages' = [messages EXCEPT ![r] = ListAppend(@, m)]
    /\ pc' = [pc EXCEPT ![r] = "check"]
    /\ UNCHANGED <<route, tool_call, function_to_call, returned, exc, invoked,
                   httpVars, streamVars>>

\* lines 56-61: ollama.chat raises; nothing in the driver catches it
ChatFail(r) ==
    /\ pc[r] = "chat"
    /\ Len(sent[r]) < MaxRounds
    /\ sent' = [sent EXCEPT ![r] = Append(@, messages[r])]
    /\ exc' = [exc EXCEPT ![r] = ModelError]
    /\ pc' = [pc EXCEPT ![r] = "raised"]
    /\ UNCHANGED <<route, messages, response, tool_call, function_to_call,
                   returned, invoked, got, httpVars, streamVars>>

\* variant: the loop goes on after a reply without tool calls
Break_Continue(r) ==
    /\ pc[r] = "check"
    /\ ~HasToolCalls(response[r])
    /\ pc' = [pc EXCEPT ![r] = "chat"]
    /\ UNCHANGED <<route, messages, response, tool_call, function_to_call, exc,
                   returned, sent, invoked, got, httpVars, streamVars>>

\* lines 67, 79-82: no tool calls; break and return messages[-1].content
Break(r) ==
    /\ pc[r] = "check"
    /\ ~HasToolCalls(response[r])
    /\ returned' = [returned EXCEPT ![r] = <<LastContent(messages[r])>>]
    /\ pc' = [pc EXCEPT ![r] = "returned"]
    /\ UNCHANGED <<route, messages, response, tool_call, function_to_call, exc,
                   sent, invoked, got, httpVars, streamVars>>

\* lines 67-70: tool calls present; the for loop runs to its end
Lookup(r) ==
    /\ pc[r] = "check"
    /\ HasToolCalls(response[r])
    /\ LET end == ForLoop(response[r].tool_calls, 1, tool_call[r], function_to_call[r])
       IN /\ tool_call' = [tool_call EXCEPT ![r] = end[1]]
          /\ function_to_call' = [function_to_call EXCEPT ![r] = end[2]]
    /\ pc' = [pc EXCEPT ![r] = "branch"]
    /\ UNCHANGED <<route, messages, response, returned, exc, sent, invoked,
                   got, httpVars, streamVars>>

\* lines 71-76: the capability is called, answers, and its result is appended
Invoke(r, results) ==
    /\ pc[r] = "branch"
    /\ function_to_call[r] # None
    /\ \E result \in results[function_to_call[r]] :
        /\ invoked' = [invoked EXCEPT ![r] =
                          Append(@, [fn |-> function_to_call[r],
                                     args |-> tool_call[r].arguments,
                                     round |-> Len(sent[r]),
                                     ok |-> TRUE, result |-> result])]
        /\ messages' = [messages EXCEPT ![r] =
                           ListAppend(@, ResultTurn(result, tool_call[r]))]
    /\ pc' = [pc EXCEPT ![r] = "chat"]
    /\ UNCHANGED <<route, response, tool_call, function_to_call, returned, exc,
                   sent, got, httpVars, streamVars>>

\* variant: the failure is caught, reported to the model as a result turn,
\* and the loop goes on
InvokeFail_Swallowed(r) ==
    /\ pc[r] = "branch"
    /\ function_to_call[r] # None
    /\ invoked' = [invoked EXCEPT ![r] =
                      Append(@, [fn |-> function_to_call[r],
                                 args |-> tool_call[r].arguments,
                                 round |-> Len(sent[r]),
                                 ok |-> FALSE, result |-> NoText])]
    /\ exc' = [exc EXCEPT ![r] = ToolError]
    /\ messages' = [messages EXCEPT ![r] =
                       ListAppend(@, ToolTurn(Str(ToolError), tool_call[r].name))]
    /\ pc' = [pc EXCEPT ![r] = "chat"]
    /\ UNCHANGED <<route, response, tool_call, function_to_call, returned,
                   sent, got, httpVars, streamVars>>

\* lines 71-73: the capability is called and raises
InvokeFail(r) ==
    /\ pc[r] = "branch"
    /\ function_to_call[r] # None
    /\ invoked' = [invoked EXCEPT ![r] =
                      Append(@, [fn |-> function_to_call[r],
                                 args |-> tool_call[r].arguments,
                                 round |-> Len(sent[r]),
                                 ok |-> FALSE, result |-> NoText])]
    /\ exc' = [exc EXCEPT ![r] = ToolError]
    /\ pc' = [pc EXCEPT ![r] = "raised"]
    /\ UNCHANGED <<route, messages, response, tool_call, function_to_call,
                   returned, sent, got, httpVars, streamVars>>

\* variant: an unknown tool is passed over without a result turn
NotFound_Silent(r) ==
    /\ pc[r] = "branch"
    /\ function_to_call[r] = None
    /\ pc' = [pc EXCEPT ![r] = "chat"]
    /\ UNCHANGED <<route, messages, response, tool_call, function_to_call,
                   returned, exc, sent, invoked, got, httpVars, streamVars>>

\* lines 77-78: the lookup gave None; a "not found" turn is appended
NotFound(r) ==
    /\ pc[r] = "branch"
    /\ function_to_call[r] = None
    /\ messages' = [messages EXCEPT ![r] = ListAppend(@, NotFoundTurn(tool_call[r]))]
    /\ pc' = [pc EXCEPT ![r] = "chat"]
    /\ UNCHANGED <<route, response, tool_call, function_to_call, returned, exc,
                   sent, invoked, got, httpVars, streamVars>>

(* ----------------- /plan-retirement and the generator ----------------- *)

\* lines 130-164: build the prompt and the conversation, return a
\* StreamingResponse over the (not yet started) generator; the response
\* starts with status 200 before the generator's body runs
RetirementHandler(r) ==
    /\ pc[r] = "idle"
    /\ route' = [route EXCEPT ![r] = "/plan-retirement"]
    /\ messages' = [messages EXCEPT ![r] = <<UserTurn(RetirementPrompt)>>]
    /\ status' = [status EXCEPT ![r] = 200]
    /\ pc' = [pc EXCEPT ![r] = "gen_start"]
    /\ UNCHANGED <<response, tool_call, function_to_call, returned, exc, sent,
                   got,
                   invoked, body, streamVars>>

\* lines 41-45: the one streaming request to the model
GenStart(r) ==
    /\ pc[r] = "gen_start"
    /\ sent' = [sent EXCEPT ![r] = Append(@, messages[r])]
    /\ pc' = [pc EXCEPT ![r] = "gen_next"]
    /\ UNCHANGED <<route, messages, response, tool_call, function_to_call,
                   returned, exc, invoked, got, httpVars, streamVars>>

\* variant: the next chunk is also taken while one waits to be yielded
GenNext_Prefetch(r, fragments) ==
    /\ pc[r] \in {"gen_next", "gen_yield"}
    /\ Len(received[r]) < MaxFrags
    /\ \E f \in fragments :
        /\ chunk' = [chunk EXCEPT ![r] = f]
        /\ received' = [received EXCEPT ![r] = Append(@, f)]
    /\ pc' = [pc EXCEPT ![r] = "gen_yield"]
    /\ UNCHANGED <<route, exc, driverVars, httpVars>>

\* line 46: the stream hands over its next chunk
GenNext(r, fragments) ==
    /\ pc[r] = "gen_next"
    /\ Len(received[r]) < MaxFrags
    /\ \E f \in fragments :
        /\ chunk' = [chunk EXCEPT ![r] = f]
        /\ received' = [received EXCEPT ![r] = Append(@, f)]
    /\ pc' = [pc EXCEPT ![r] = "gen_yield"]
    /\ UNCHANGED <<route, exc, driverVars, httpVars>>

\* variant: the fragment is written out ahead of the earlier ones
GenYield_Front(r) ==
    /\ pc[r] = "gen_yield"
    /\ body' = [body EXCEPT ![r] = <<chunk[r]>> \o @]
    /\ pc' = [pc EXCEPT ![r] = "gen_next"]
    /\ UNCHANGED <<route, exc, status, driverVars, streamVars>>

\* line 48: yield chunk.message.content; the transport writes it out
GenYield(r) ==
    /\ pc[r] = "gen_yield"
    /\ body' = [body EXCEPT ![r] = Append(@, chunk[r])]
    /\ pc' = [pc EXCEPT ![r] = "gen_next"]
    /\ UNCHANGED <<route, exc, status, driverVars, streamVars>>

\* line 46: the stream is exhausted; the generator and the response end
GenEnd(r) ==
    /\ pc[r] = "gen_next"
    /\ pc' = [pc EXCEPT ![r] = "done"]
    /\ UNCHANGED <<route, exc, driverVars, httpVars, streamVars>>

\* line 46: the model runtime fails while the stream is read.  The handler
\* of lines 131-168 has returned, so its except clause is not on the stack:
\* the response, already started with 200, is cut off
GenFail(r) ==
    /\ pc[r] = "gen_next"
    /\ exc' = [exc EXCEPT ![r] = ModelError]
    /\ pc' = [pc EXCEPT ![r] = "aborted"]
    /\ UNCHANGED <<route, driverVars, httpVars, streamVars>>

(* --------------------------- specification ---------------------------- *)

\* one request, on either route
Next ==
    \E r \in {"r1"} :
        \/ HomeHandler(r)
        \/ Chat(r, Replies)
        \/ ChatFail(r)
        \/ Break(r)
        \/ Lookup(r)
        \/ Invoke(r, ResultsOf)
        \/ InvokeFail(r)
        \/ NotFound(r)
        \/ HomeReturn(r)
        \/ HomeExcept(r)
        \/ RetirementHandler(r)
        \/ GenStart(r)
        \/ GenNext(r, Fragments)
        \/ GenYield(r)
        \/ GenEnd(r)
        \/ GenFail(r)

Spec == Init /\ [][Next]_vars

\* results around the slice bound of line 76, for either capability
TruncResults ==
    [fn \in {"web_search", "web_fetch"} |->
        { [src |-> "fetched page", len |-> n] :
            n \in {200, ResultLimit - 1, ResultLimit, ResultLimit + 1, 2 * ResultLimit} }]

\* replies with at most one tool request
SingleCallReplies == { m \in Replies : Len(m.tool_calls) <= 1 }

\* one request through the driver, no call failing, tool results of many lengths
NextTrunc ==
    \E r \in {"r1"} :
        \/ HomeHandler(r)
        \/ Chat(r, SingleCallReplies)
        \/ Break(r)
        \/ Lookup(r)
        \/ Invoke(r, TruncResults)
        \/ NotFound(r)
        \/ HomeReturn(r)

SpecTrunc == Init /\ [][NextTrunc]_vars

\* a few replies: a final answer, a request for a registered tool, a
\* request for an unregistered one
FewReplies ==
    { Message(Txt("final answer"), NoText, <<>>),
      Message(NoText, Txt("deliberation"), <<ToolCall("web_search", ArgsOf(1))>>),
      Message(Txt("final answer"), NoText, <<ToolCall("calc", ArgsOf(1))>>) }

FewFragments == { Txt("Afford") }

\* the requests of the server, each run by its own control flow, their
\* steps interleaved in any order
NextConc ==
    \E r \in Requests :
        \/ HomeHandler(r)
        \/ Chat(r, FewReplies)
        \/ ChatFail(r)
        \/ Break(r)
        \/ Lookup(r)
        \/ Invoke(r, ResultsOf)
        \/ InvokeFail(r)
        \/ NotFound(r)
        \/ HomeReturn(r)
        \/ HomeExcept(r)
        \/ RetirementHandler(r)
        \/ GenStart(r)
        \/ GenNext(r, FewFragments)
        \/ GenYield(r)
        \/ GenEnd(r)
        \/ GenFail(r)

SpecConc == Init /\ [][NextConc]_vars

\* replies without tool requests
FinalReplies == { m \in Replies : Len(m.tool_calls) = 0 }

\* a step of the driver and of the handler that called it
DriverStep(r) ==
    \/ Chat(r, IF Len(sent[r]) + 1 < MaxRounds THEN Replies ELSE FinalReplies)
    \/ Break(r)
    \/ Lookup(r)
    \/ Invoke(r, ResultsOf)
    \/ NotFound(r)
    \/ HomeReturn(r)

\* one request through the driver when no call fails and the model stops
\* asking for tools by its last round
NextLive ==
    \E r \in {"r1"} :
        \/ HomeHandler(r)
        \/ DriverStep(r)

\* the handler's control flow keeps running: its calls are blocking, and
\* each returns
SpecLive == Init /\ [][NextLive]_vars /\ WF_vars(DriverStep("r1"))

(* ----------------------- vocabulary of the claims --------------------- *)

IsPrefix(s, t) == Len(s) <= Len(t) /\ SubSeq(t, 1, Len(s)) = s

Last(s) == s[Len(s)]

\* a turn that carries no tool request
ToolFree(turn) == turn.tool_calls = <<>>

OnHome(r) == route[r] = "/plan-home-purchase"

Registered(name) == name \in DOMAIN available_tools

\* the capability invocations made in the k-th round
InvokedIn(r, k) == { i \in 1..Len(invoked[r]) : invoked[r][i].round = k }

\* the driver has dealt with its latest reply and has not failed: it is
\* back at the head of the loop (the next model call) or it has returned
RoundOver(r) ==
    /\ OnHome(r)
    /\ Len(got[r]) >= 1
    /\ pc[r] \in {"chat", "returned", "done"}
    /\ exc[r] = NoExc

\* the turns the latest round added to the conversation it was sent
Gained(r) == SubSeq(messages[r], Len(Last(sent[r])) + 1, Len(messages[r]))

(* -------------------------------- C1 ---------------------------------- *)

\* C1: a reply without tool requests ends the loop.  In every state after
\* such a reply the conversation is the one that was sent plus that reply,
\* no capability was invoked in that round, and once the driver has
\* returned its value is that reply's content; when the first reply is
\* tool-free there was one model call and the conversation has two turns.
C1_ToolFreeReplyEnds ==
    \A r \in Requests :
        (OnHome(r) /\ Len(got[r]) >= 1 /\ ToolFree(Last(got[r]))) =>
            /\ pc[r] \in {"check", "returned", "done"}
            /\ Len(sent[r]) = Len(got[r])
            /\ messages[r] = Append(Last(sent[r]), Last(got[r]))
            /\ InvokedIn(r, Len(sent[r])) = {}
            /\ pc[r] \in {"returned", "done"} =>
                   /\ returned[r] = <<Last(got[r]).content>>
                   /\ exc[r] = NoExc
            /\ pc[r] = "done" => status[r] = 200 /\ body[r] = returned[r]
            /\ ToolFree(got[r][1]) =>
                   Len(sent[r]) = 1 /\ Len(messages[r]) = 2

\* the first reply was tool-free, had content, and the driver returned it
C1_Witness ==
    /\ pc["r1"] = "returned"
    /\ Len(sent["r1"]) = 1
    /\ ToolFree(got["r1"][1])
    /\ Truthy(returned["r1"][1])

(* -------------------------------- C2 ---------------------------------- *)

\* what C2 says of the i-th request of the latest reply of r
RegisteredRequestServed(r, i) ==
    LET tc == Last(got[r]).tool_calls[i]
    IN Registered(tc.name) =>
        /\ pc[r] = "chat"
        /\ Len(Gained(r)) = 2
        /\ Gained(r)[1] = Last(got[r])
        /\ Gained(r)[2].role = "tool"
        /\ Gained(r)[2].tool_name = tc.name
        /\ \E j \in InvokedIn(r, Len(sent[r])) :
               /\ invoked[r][j].fn = available_tools[tc.name]
               /\ invoked[r][j].args = tc.arguments

\* C2: a round whose reply holds a request for a registered tool, and that
\* did not fail, adds exactly two turns: the reply, then one result turn
\* that names the requested tool; the tool was called with the request's
\* arguments; and the driver is at its next model call.
C2_RegisteredToolRound ==
    \A r \in Requests :
        RoundOver(r) =>
            \A i \in 1..Len(Last(got[r]).tool_calls) : RegisteredRequestServed(r, i)

\* the same, for replies that carry a single request only
C2_SingleRequestRound ==
    \A r \in Requests :
        (RoundOver(r) /\ Len(Last(got[r]).tool_calls) = 1) =>
            RegisteredRequestServed(r, 1)

(* -------------------------------- C3 ---------------------------------- *)

\* what C3 says of the i-th request of the latest reply of r
UnknownRequestAnswered(r, i) ==
    LET tc == Last(got[r]).tool_calls[i]
    IN ~Registered(tc.name) =>
        /\ pc[r] = "chat"
        /\ \E j \in 1..Len(Gained(r)) :
               /\ Gained(r)[j].role = "tool"
               /\ Gained(r)[j].tool_name = tc.name
               /\ Gained(r)[j].content = NotFoundText(tc.name)
        /\ \A j \in InvokedIn(r, Len(sent[r])) :
               invoked[r][j].args # tc.arguments

\* C3: a round whose reply holds a request for an unregistered tool, and
\* that did not fail, has appended a "not found" result turn that names the
\* requested tool, has invoked nothing for that request, and the driver is
\* at its next model call.
C3_UnknownToolRound ==
    \A r \in Requests :
        RoundOver(r) =>
            \A i \in 1..Len(Last(got[r]).tool_calls) : UnknownRequestAnswered(r, i)

\* the same, for replies that carry a single request only
C3_SingleRequestRound ==
    \A r \in Requests :
        (RoundOver(r) /\ Len(Last(got[r]).tool_calls) = 1) =>
            UnknownRequestAnswered(r, 1)

(* -------------------------------- C4 ---------------------------------- *)

\* in conversation conv, the assistant turn at j with n >= 1 tool requests
\* is followed by exactly n tool turns, the i-th named as the i-th request
ResultsFollow(conv, j) ==
    LET n == Len(conv[j].tool_calls)
    IN (conv[j].role = "assistant" /\ n >= 1) =>
        /\ j + n <= Len(conv)
        /\ \A i \in 1..n :
               /\ conv[j + i].role = "tool"
               /\ conv[j + i].tool_name = conv[j].tool_calls[i].name
        /\ (j + n < Len(conv)) => conv[j + n + 1].role # "tool"

\* C4: every conversation passed to a model call after the first has, after
\* each assistant turn with tool requests, one result turn per request, in
\* the order of the requests.
C4_OneResultPerRequest ==
    \A r \in Requests :
        OnHome(r) =>
            \A k \in 2..Len(sent[r]) :
                \A j \in 1..Len(sent[r][k]) : ResultsFollow(sent[r][k], j)

\* the same, when no reply carried more than one request
C4_SingleRequestReplies ==
    \A r \in Requests :
        (OnHome(r) /\ \A g \in 1..Len(got[r]) : Len(got[r][g].tool_calls) <= 1) =>
            \A k \in 2..Len(sent[r]) :
                \A j \in 1..Len(sent[r][k]) : ResultsFollow(sent[r][k], j)

(* -------------------------------- C5 ---------------------------------- *)

\* each conversation passed to the model starts with the user turn the
\* handler made and strictly extends the one passed before it
SentGrows(r) ==
    /\ \A k \in 1..Len(sent[r]) :
           /\ sent[r][k] # <<>>
           /\ sent[r][k][1] \in {UserTurn(HomePrompt), UserTurn(RetirementPrompt)}
           /\ IsPrefix(sent[r][k], messages[r])
    /\ \A k \in 1..(Len(sent[r]) - 1) :
           /\ IsPrefix(sent[r][k], sent[r][k + 1])
           /\ Len(sent[r][k]) < Len(sent[r][k + 1])

\* C5: the conversation is append-only.  Every step leaves the conversation
\* it found as a prefix of the one it leaves, and the conversations passed
\* to the model grow strictly, each starting with the original user turn.
C5_AppendOnly ==
    [][ \A r \in Requests :
            /\ IsPrefix(messages[r], messages'[r])
            /\ SentGrows(r)' ]_vars

\* a second model call was made, with a longer conversation
C5_Witness ==
    /\ OnHome("r1")
    /\ Len(sent["r1"]) = 2
    /\ Len(sent["r1"][2]) = 3

(* -------------------------------- C6 ---------------------------------- *)

\* C6: when the driver has returned, the last turn is an assistant turn
\* without tool requests, and every assistant turn before it has some.
C6_ReturnsOnToolFreeTurn ==
    \A r \in Requests :
        returned[r] # <<>> =>
            /\ Last(messages[r]).role = "assistant"
            /\ ToolFree(Last(messages[r]))
            /\ \A j \in 1..(Len(messages[r]) - 1) :
                   messages[r][j].role = "assistant" => ~ToolFree(messages[r][j])

\* the driver returned in its second round
C6_Witness ==
    /\ returned["r1"] # <<>>
    /\ Len(messages["r1"]) = 4
    /\ messages["r1"][2].role = "assistant"

(* -------------------------------- C7 ---------------------------------- *)

\* C7: a request during which the model runtime or a tool failed is
\* answered with status 500 and a body that holds the failure's message; it
\* never has status 200.
C7_FailureGives500 ==
    \A r \in Requests :
        exc[r] # NoExc =>
            /\ status[r] # 200
            /\ pc[r] \in {"done", "aborted"} =>
                   status[r] = 500 /\ body[r] = <<Str(exc[r])>>

\* the same, on /plan-home-purchase only
C7_HomeFailureGives500 ==
    \A r \in Requests :
        (exc[r] # NoExc /\ OnHome(r)) =>
            /\ status[r] # 200
            /\ pc[r] \in {"done", "aborted"} =>
                   status[r] = 500 /\ body[r] = <<Str(exc[r])>>

(* -------------------------------- C8 ---------------------------------- *)

\* the state of the driver once a call of its has failed
Aborted(r) ==
    /\ pc[r] \in {"raised", "done"}
    /\ returned[r] = <<>>
    /\ exc[r] = ModelError =>
           /\ messages[r] = Last(sent[r])
           /\ Len(got[r]) = Len(sent[r]) - 1
    /\ exc[r] = ToolError =>
           /\ messages[r] = Append(Last(sent[r]), Last(got[r]))
           /\ Last(messages[r]).role = "assistant"
           /\ Cardinality(InvokedIn(r, Len(sent[r]))) = 1
           /\ Last(invoked[r]).round = Len(sent[r])

\* C8: a failed model call or tool invocation ends the loop at once.  From
\* the failure on the driver makes no model call and no tool call, appends
\* nothing (no result turn for the failed invocation) and returns nothing.
C8_FailureAborts ==
    [][ \A r \in Requests :
            /\ (OnHome(r) /\ exc[r] # NoExc)' => Aborted(r)'
            /\ (OnHome(r) /\ exc[r] # NoExc) =>
                   /\ sent'[r] = sent[r]
                   /\ got'[r] = got[r]
                   /\ invoked'[r] = invoked[r]
                   /\ messages'[r] = messages[r]
                   /\ returned'[r] = returned[r] ]_vars

\* a tool failed in the second round and the handler has answered
C8_Witness ==
    /\ OnHome("r1")
    /\ exc["r1"] = ToolError
    /\ pc["r1"] = "done"
    /\ Len(sent["r1"]) = 2

(* -------------------------------- C9 ---------------------------------- *)

\* C9: with the round limit set to 1 the driver makes no second model call.
C9_RoundLimitOne ==
    \A r \in Requests : OnHome(r) => Len(sent[r]) <= 1

(* -------------------------------- C10 --------------------------------- *)

OnRetirement(r) == route[r] = "/plan-retirement"

\* the text made of the given whole texts, one after the other
RECURSIVE JoinSrc(_)
JoinSrc(texts) ==
    IF texts = <<>> THEN "" ELSE texts[1].src \o JoinSrc(Tail(texts))

Concat(texts) == Txt(JoinSrc(texts))

\* C11: the fragments delivered to the caller are at every moment a prefix
\* of the fragments received from the model; when the model ends the stream
\* the response is complete, the delivered fragments are the received ones
\* and their concatenations are equal.
C11_StreamRelayOrder ==
    \A r \in Requests :
        OnRetirement(r) =>
            /\ IsPrefix(body[r], received[r])
            /\ pc[r] = "done" =>
                   /\ body[r] = received[r]
                   /\ Concat(body[r]) = Concat(received[r])
                   /\ exc[r] = NoExc /\ status[r] = 200

\* the model sent "Afford", "ability: yes", "." and ended; the caller has
\* "Affordability: yes."
C11_Witness ==
    /\ OnRetirement("r1")
    /\ pc["r1"] = "done"
    /\ received["r1"] = <<Txt("Afford"), Txt("ability: yes"), Txt(".")>>
    /\ Concat(body["r1"]) = Txt("Affordability: yes.")

(* -------------------------------- C12 --------------------------------- *)

\* the result turn appended for the i-th invocation of r: the second turn
\* its round added to the conversation that round was sent
TurnOf(r, i) == messages[r][Len(sent[r][invoked[r][i].round]) + 2]

\* C12: the result turn of an invocation that answered holds the whole
\* result text when that has at most 32000 characters, and its first 32000
\* characters otherwise; it never holds more than 32000.
C12_Truncation ==
    \A r \in Requests :
        \A i \in 1..Len(invoked[r]) :
            LET res == invoked[r][i].result
                turn == TurnOf(r, i)
            IN invoked[r][i].ok =>
                /\ turn.role = "tool"
                /\ turn.content.len <= 32000
                /\ res.len <= 32000 => turn.content = res
                /\ res.len > 32000 =>
                       turn.content = [src |-> res.src, len |-> 32000]

\* a result of exactly 32000 characters was appended whole, then one of
\* 32001 characters was cut to 32000
C12_Witness ==
    /\ Len(invoked["r1"]) = 2
    /\ invoked["r1"][1].ok /\ invoked["r1"][1].result.len = 32000
    /\ TurnOf("r1", 1).content.len = 32000
    /\ invoked["r1"][2].ok /\ invoked["r1"][2].result.len = 32001
    /\ TurnOf("r1", 2).content.len = 32000

(* -------------------------------- C13 --------------------------------- *)

\* all the state of request q
StateOf(q) ==
    <<pc[q], route[q], messages[q], response[q], tool_call[q], function_to_call[q],
      returned[q], exc[q], status[q], body[q], sent[q], got[q], invoked[q],
      received[q], chunk[q]>>

\* the conversation of q is its own user turn, then for each of its rounds
\* the reply that round got and the result turn for that reply
OwnTurnsOnly(q) ==
    /\ OnRetirement(q) => messages[q] = <<UserTurn(RetirementPrompt)>>
    /\ OnHome(q) =>
        /\ messages[q][1] = UserTurn(HomePrompt)
        /\ Len(messages[q]) \in {2 * Len(got[q]), 2 * Len(got[q]) + 1}
        /\ \A k \in 1..Len(got[q]) : messages[q][2 * k] = got[q][k]
        /\ \A j \in 2..Len(messages[q]) :
               messages[q][j].role = "tool" =>
                   /\ messages[q][j - 1].role = "assistant"
                   /\ ~ToolFree(messages[q][j - 1])
                   /\ messages[q][j].tool_name =
                          Last(messages[q][j - 1].tool_calls).name

\* C13: requests handled at the same time are independent.  A step changes
\* the state of one request only, the conversation of every other request
\* included, and each conversation holds the request's own user turn and
\* the turns of its own rounds.
C13_RequestsIndependent ==
    [][ \A q \in Requests :
            /\ pc'[q] = pc[q] => StateOf(q)' = StateOf(q)
            /\ OwnTurnsOnly(q)' ]_vars

\* both requests are in the driver, each in its second round, with
\* different conversations
C13_Witness ==
    /\ OnHome("r1") /\ OnHome("r2")
    /\ Len(sent["r1"]) = 2 /\ Len(sent["r2"]) = 2
    /\ pc["r1"] = "check" /\ pc["r2"] = "branch"
    /\ messages["r1"] # messages["r2"]

(* -------------------------------- C14 --------------------------------- *)

\* C14: of a reply with two or more tool requests only the last is
\* resolved.  In its round at most one capability is invoked, the one the
\* last request names, with the last request's arguments, and only if that
\* name is registered; when the round is over exactly one result turn was
\* appended, and it carries the last request's tool name.
C14_LastRequestOnly ==
    \A r \in Requests :
        (OnHome(r) /\ Len(got[r]) >= 1 /\ Len(Last(got[r]).tool_calls) >= 2) =>
            LET calls == Last(got[r]).tool_calls
                last == calls[Len(calls)]
                made == InvokedIn(r, Len(got[r]))
            IN /\ Cardinality(made) <= 1
               /\ \A j \in made :
                      /\ Registered(last.name)
                      /\ invoked[r][j].fn = available_tools[last.name]
                      /\ invoked[r][j].args = last.arguments
               /\ (pc[r] = "chat" /\ exc[r] = NoExc) =>
                      /\ Len(Gained(r)) = 2
                      /\ Gained(r)[1] = Last(got[r])
                      /\ Gained(r)[2].role = "tool"
                      /\ Gained(r)[2].tool_name = last.name
                      /\ Registered(last.name) <=> Cardinality(made) = 1

\* the reply asked for web_search, then web_fetch; the round is over and
\* only web_fetch was invoked
C14_Witness ==
    /\ OnHome("r1")
    /\ pc["r1"] = "chat"
    /\ Len(got["r1"]) = 1
    /\ Len(got["r1"][1].tool_calls) = 2
    /\ got["r1"][1].tool_calls[1].name = "web_search"
    /\ got["r1"][1].tool_calls[2].name = "web_fetch"
    /\ Len(invoked["r1"]) = 1
    /\ invoked["r1"][1].fn = "web_fetch"

(* -------------------------------- C15 --------------------------------- *)

\* C15: a streamed response makes one model request, with the handler's
\* conversation, and leaves that conversation as it was; a fragment is
\* taken from the model only when every earlier one was handed on, so at
\* most one fragment is received and not yet delivered, namely the one
\* about to be yielded.
C15_NoPrefetch ==
    \A r \in Requests :
        OnRetirement(r) =>
            /\ messages[r] = <<UserTurn(RetirementPrompt)>>
            /\ Len(sent[r]) <= 1
            /\ pc[r] # "gen_start" => sent[r] = <<messages[r]>>
            /\ got[r] = <<>> /\ invoked[r] = <<>>
            /\ Len(body[r]) <= Len(received[r])
            /\ Len(received[r]) <= Len(body[r]) + 1
            /\ Len(received[r]) = Len(body[r]) + 1 <=> pc[r] = "gen_yield"
            /\ pc[r] = "gen_yield" => chunk[r] = Last(received[r])

\* the second fragment was taken after the first was delivered
C15_Witness ==
    /\ OnRetirement("r1")
    /\ pc["r1"] = "gen_yield"
    /\ Len(received["r1"]) = 2
    /\ Len(body["r1"]) = 1
    /\ Len(sent["r1"]) = 1

(* -------------------------------- C16 --------------------------------- *)

\* the replies of r that asked for tools
ToolRounds(r) == { g \in 1..Len(got[r]) : ~ToolFree(got[r][g]) }

\* the driver returned after k tool-requesting replies: k + 1 model calls
\* were made and the value is the content of reply k + 1
ReturnedAfterRounds(r) ==
    LET k == Cardinality(ToolRounds(r))
    IN /\ ToolRounds(r) = 1..k
       /\ Len(sent[r]) = k + 1
       /\ Len(got[r]) = k + 1
       /\ returned[r] = <<got[r][k + 1].content>>

\* C16: when no call fails and the model gives a reply without tool
\* requests after finitely many rounds, the driver, once entered, returns
\* in the end; it has then made k + 1 model calls, k the number of replies
\* that asked for tools, and returns the content of reply k + 1.
C16_DriverReturns ==
    /\ \A r \in Requests : (pc[r] = "chat") ~> (returned[r] # <<>>)
    /\ [](\A r \in Requests : returned[r] # <<>> => ReturnedAfterRounds(r))

\* the driver returned after one tool round and a second model call
C16_Witness ==
    /\ returned["r1"] # <<>>
    /\ ToolRounds("r1") = {1}
    /\ Len(sent["r1"]) = 2
    /\ returned["r1"] = <<got["r1"][2].content>>

(* -------------------------------- C17 --------------------------------- *)

\* C17: the conversation of the driver is the handler's user turn followed
\* by assistant and tool turns in strict alternation; a tool turn comes
\* right after an assistant turn that has tool requests; the k-th model
\* call is passed 2k - 1 turns, the last one the user turn (k = 1) or a
\* tool turn (k > 1); after a return in round k there are 2k turns.
C17_ConversationShape ==
    \A r \in Requests :
        OnHome(r) =>
            /\ messages[r][1] = UserTurn(HomePrompt)
            /\ \A j \in 2..Len(messages[r]) :
                   /\ j % 2 = 0 => messages[r][j].role = "assistant"
                   /\ j % 2 = 1 =>
                          /\ messages[r][j].role = "tool"
                          /\ ~ToolFree(messages[r][j - 1])
            /\ \A k \in 1..Len(sent[r]) :
                   /\ Len(sent[r][k]) = 2 * k - 1
                   /\ Last(sent[r][k]).role = IF k = 1 THEN "user" ELSE "tool"
            /\ returned[r] # <<>> => Len(messages[r]) = 2 * Len(sent[r])

\* the driver returned in round 2, after a reply with two tool requests:
\* four turns
C17_Witness ==
    /\ OnHome("r1")
    /\ returned["r1"] # <<>>
    /\ Len(sent["r1"]) = 2
    /\ Len(messages["r1"]) = 4
    /\ Len(messages["r1"][2].tool_calls) = 2
    /\ messages["r1"][3].role = "tool"

====
